---- MODULE Spec2Model ----
(***************************************************************************)
(* k-nucleotide counting: the chunked parallel implementation              *)
(* (src/src/knucleotide.rs) and the sequential-scan implementation         *)
(* (src/src/new.rs).                                                       *)
(*                                                                         *)
(* A 64-bit key (Seq.hash_key, Nucleotide.key) is held as the sequence of  *)
(* its 32 bit pairs, low pair first: key[i + 1] is the value of bits       *)
(* 2i+1..2i.  Every shift in the source moves by an even number of bits    *)
(* and every mask is a run of whole pairs, so the pair view is exact.      *)
(* A byte string is a sequence of byte values.                             *)
(***************************************************************************)
EXTENDS Integers, Sequences, FiniteSets, TLC

VARIABLES
    profile,        \* "debug" (overflow checks on) or "release" (off)
    impl,           \* which implementation a codec run exercises
    seq_len,        \* the window length k of the run
    genome,         \* the input buffer
    cur_seq,        \* the key of the window cursor (KNucleotides.cur_seq / GenomeIter.nucleotide)
    fed,            \* the bytes pushed into cur_seq so far
    text,           \* the result of to_str, once taken
    fault,          \* "none", or the panic that ended the run
    applied,        \* the counting operation a counting run has applied, or "none"
    seq_str,        \* the query string handed to par_count
    result,         \* what the applied operation returned
    chunk_tables,   \* the tables handed to a reduction
    parts,          \* the tables of the reduction not yet merged
    declared,       \* the query strings as the caller of count wrote them in str![..]
    pool,           \* knucleotide.rs: the threads count spawned (show's counts)
    main_pc,        \* knucleotide.rs: where main stands
    main_exit,      \* knucleotide.rs: "running", "ok" or "panicked"
    k_counts,       \* knucleotide.rs: main's (k1, k2)
    strs,           \* knucleotide.rs: the strings show_k(1), show_k(2) and show built
    stdout,         \* knucleotide.rs: the lines printed
    worker_threads, \* new.rs: the threads par_count_nucleotides spawned
    run_pc,         \* new.rs: where run stands
    run_exit,       \* new.rs: "idle", "running", "ok" or "panicked"
    run_stdout      \* new.rs: the lines printed

inputVars == <<profile, impl, seq_len, genome>>
codecVars == <<cur_seq, fed, text, fault>>
countVars == <<applied, seq_str, result>>
mergeVars == <<chunk_tables, parts>>
mainVars == <<declared, pool, main_pc, main_exit, k_counts, strs, stdout>>
runVars == <<worker_threads, run_pc, run_exit, run_stdout>>
vars == <<inputVars, codecVars, countVars, mergeVars, mainVars, runVars>>

----------------------------------------------------------------------------
(* Bounds of the model.                                                    *)

\* window lengths of a codec run: 1..MaxSeqLen
MaxSeqLen == 32
\* a codec run pushes at most seq_len + MaxExtra bytes
MaxExtra == 2
\* input strings are periodic, with a period of 1..MaxPeriod symbols
MaxPeriod == 2
\* window lengths of a counting run: 1..MaxK
MaxK == 3
\* buffer lengths of a counting run: NUM_CHUNKS * q + r, q in 0..MaxQuot, r in 0..MaxRem
MaxQuot == 2
MaxRem == 1
\* counts of the tables handed to a reduction: 1..MaxCount
MaxCount == 3
\* buffer lengths of a program run: up to MaxRunQuot * NUM_CHUNKS + 1
MaxRunQuot == 2

----------------------------------------------------------------------------
(* Symbol codec.                                                           *)

byte_A == 65
byte_C == 67
byte_G == 71
byte_T == 84
Symbols == {byte_A, byte_C, byte_G, byte_T}

\* const NUCLEOTIDES: [char; 4] = ['A', 'C', 'T', 'G'] (indexed from 0)
NUCLEOTIDES == <<byte_A, byte_C, byte_T, byte_G>>

\* u64 as bit pairs
KeyPairs == 32

\* n pairs of zero bits
Zeros(n) == [i \in 1 .. n |-> 0]

\* Seq::default() / Nucleotide::default()
ZeroKey == <<>> \o Zeros(KeyPairs)

\* (byte >> 1) & 0b11
Code(byte) == (byte \div 2) % 4

\* key << 2 : the top pair is shifted out, the low pair becomes 0
Shl2(key) == <<0>> \o SubSeq(key, 1, KeyPairs - 1)

\* key | c, for a 2-bit c and a key whose low pair is 0
OrLow(key, c) == [key EXCEPT ![1] = c]

\* 1u64 << (2 * n) overflows when the shift amount reaches the width: a panic
\* with overflow checks, and the amount taken modulo 64 without them.
ShlOverflows(n) == 2 * n >= 2 * KeyPairs

\* the number of low pairs (1u64 << (2 * n)) - 1 keeps, without overflow checks
MaskPairs(n) == ((2 * n) % (2 * KeyPairs)) \div 2

\* key & ((1u64 << (2 * n)) - 1)
AndMask(key, n) == SubSeq(key, 1, MaskPairs(n)) \o Zeros(KeyPairs - MaskPairs(n))

\* Seq::push (knucleotide.rs): one expression
Seq_push(key, byte, n) == AndMask(OrLow(Shl2(key), Code(byte)), n)

\* Nucleotide::push_byte (new.rs): three statements
push_byte(key, byte, n) ==
    LET k1 == Shl2(key)
        k2 == OrLow(k1, Code(byte))
    IN  AndMask(k2, n)

\* (key >> (2 * i)) & 0b11: the shift amount is taken modulo 64 without
\* overflow checks
PairAt(key, i) == key[(i % KeyPairs) + 1]

\* Seq::to_str: for seq_i in (0..seq_len).rev() push NUCLEOTIDES[pair seq_i]
Seq_to_str(key, n) == [j \in 1 .. n |-> NUCLEOTIDES[PairAt(key, n - j) + 1]]

\* Nucleotide::to_str
Nucleotide_to_str(key, n) == [j \in 1 .. n |-> NUCLEOTIDES[PairAt(key, n - j) + 1]]

RECURSIVE k_nucleotides_from(_, _, _, _, _)
\* cur_seq.push(byte, seq_len) for the bytes lo..hi in turn, from the key `key`:
\* the key after each push.  (The pushes are applied in order; the range is
\* halved only to keep the evaluation shallow.)
k_nucleotides_from(key, n, bytes, lo, hi) ==
    IF lo > hi THEN <<>>
    ELSE IF lo = hi THEN <<Seq_push(key, bytes[lo], n)>>
    ELSE LET mid == (lo + hi) \div 2
             left == k_nucleotides_from(key, n, bytes, lo, mid)
         IN  left \o k_nucleotides_from(left[Len(left)], n, bytes, mid + 1, hi)

\* Seq::from_str: every byte of the string is pushed into a zero key, with the
\* length of the string as window length
Seq_from_str(str) ==
    IF Len(str) = 0 THEN ZeroKey
    ELSE k_nucleotides_from(ZeroKey, Len(str), str, 1, Len(str))[Len(str)]

RECURSIVE GenomeIter_from(_, _, _, _, _)
\* nucleotide.push_byte(byte, nucleotide_len) for the bytes lo..hi in turn
GenomeIter_from(key, n, bytes, lo, hi) ==
    IF lo > hi THEN <<>>
    ELSE IF lo = hi THEN <<push_byte(key, bytes[lo], n)>>
    ELSE LET mid == (lo + hi) \div 2
             left == GenomeIter_from(key, n, bytes, lo, mid)
         IN  left \o GenomeIter_from(left[Len(left)], n, bytes, mid + 1, hi)

\* Nucleotide::from
Nucleotide_from(str) ==
    IF Len(str) = 0 THEN ZeroKey
    ELSE GenomeIter_from(ZeroKey, Len(str), str, 1, Len(str))[Len(str)]

----------------------------------------------------------------------------
(* Counting engine, chunk partitioner and reducer of knucleotide.rs.       *)
(* A count table (HashMap<Seq, u32>) is a function from its keys to their  *)
(* counts.  An operation returns a record: panic, and the table or count.  *)

NUM_CHUNKS == 64

EmptyTable == <<>>
NoResult == [panic |-> FALSE, table |-> EmptyTable, count |-> 0]
Panicked == [panic |-> TRUE, table |-> EmptyTable, count |-> 0]
ReturnTable(t) == [panic |-> FALSE, table |-> t, count |-> 0]
ReturnCount(c) == [panic |-> FALSE, table |-> EmptyTable, count |-> c]

\* k_nucleotides(seq_len, genome) and KNucleotides::next until the bytes run
\* out: one key for every byte, the cursor's key after the push of that byte
k_nucleotides(n, bytes) == k_nucleotides_from(ZeroKey, n, bytes, 1, Len(bytes))

\* for seq in keys { *seq_cnts.entry(seq).or_insert(0) += 1 }: every key the
\* iterator yields gets an entry, counting the times it was yielded
Tabulate(keys) ==
    [seq \in {keys[j] : j \in 1 .. Len(keys)} |->
        Cardinality({j \in 1 .. Len(keys) : keys[j] = seq})]

\* inner_count_k(seq_len, genome)
inner_count_k(n, bytes) == Tabulate(k_nucleotides(n, bytes))

\* inner_count(target_seq, seq_len, genome): filter(seq == target_seq).count()
inner_count(target_seq, n, bytes) ==
    LET keys == k_nucleotides(n, bytes)
    IN  Cardinality({j \in 1 .. Len(keys) : keys[j] = target_seq})

\* bytes.windows(chunk_size + overlap) panics on a window size of 0 and
\* .step_by(chunk_size) panics on a step of 0
chunks_panics(chunk_size, overlap) == chunk_size + overlap = 0 \/ chunk_size = 0

\* chunks(chunk_size, overlap, bytes): the windows of chunk_size + overlap bytes
\* that start at 0, chunk_size, 2 * chunk_size, ... and fit into bytes
chunks(chunk_size, overlap, bytes) ==
    LET size == chunk_size + overlap
        starts == {s \in 0 .. Len(bytes) : s % chunk_size = 0 /\ s + size <= Len(bytes)}
    IN  [i \in 1 .. Cardinality(starts) |->
            SubSeq(bytes, (i - 1) * chunk_size + 1, (i - 1) * chunk_size + size)]

\* a variant of AddCount that stores the count instead of adding it
\* (a.insert(seq, cnt))
AddCount_insert(a, seq, cnt) == (seq :> cnt) @@ a

\* *a.entry(seq).or_insert(0) += cnt
AddCount(a, seq, cnt) ==
    IF seq \in DOMAIN a THEN [a EXCEPT ![seq] = @ + cnt]
    ELSE (seq :> cnt) @@ a

RECURSIVE merge_from(_, _, _)
\* the loop of merge over the entries of b still to visit
merge_from(a, b, left) ==
    IF left = {} THEN a
    ELSE LET seq == CHOOSE x \in left : TRUE
         IN  merge_from(AddCount(a, seq, b[seq]), b, left \ {seq})

\* merge(a, b): for (seq, cnt) in b { *a.entry(seq).or_insert(0) += cnt }
merge(a, b) == merge_from(a, b, DOMAIN b)

RECURSIVE reduce(_, _, _)
\* rayon's .reduce(HashMap::default, merge) over tables[lo..hi]: the range is
\* split in halves, a single table is merged into the identity, and the halves'
\* results are merged, left with right
reduce(tables, lo, hi) ==
    IF lo > hi THEN EmptyTable
    ELSE IF lo = hi THEN merge(EmptyTable, tables[lo])
    ELSE LET mid == (lo + hi) \div 2
         IN  merge(reduce(tables, lo, mid), reduce(tables, mid + 1, hi))

\* count_k(k, genome)
count_k(k, bytes) ==
    IF chunks_panics(Len(bytes) \div NUM_CHUNKS, k - 1) THEN Panicked
    ELSE LET cs == chunks(Len(bytes) \div NUM_CHUNKS, k - 1, bytes)
             tables == [i \in 1 .. Len(cs) |-> inner_count_k(k, cs[i])]
         IN  ReturnTable(reduce(tables, 1, Len(tables)))

RECURSIVE sum(_, _, _)
\* rayon's .sum() over ns[lo..hi], by halves
sum(ns, lo, hi) ==
    IF lo > hi THEN 0
    ELSE IF lo = hi THEN ns[lo]
    ELSE LET mid == (lo + hi) \div 2
         IN  sum(ns, lo, mid) + sum(ns, mid + 1, hi)

\* par_count(seq_str, seq_len, genome), the count of the pair it returns
par_count(str, n, bytes) ==
    IF chunks_panics(Len(bytes) \div NUM_CHUNKS, n - 1) THEN Panicked
    ELSE LET cs == chunks(Len(bytes) \div NUM_CHUNKS, n - 1, bytes)
             target == Seq_from_str(str)
             counts == [i \in 1 .. Len(cs) |-> inner_count(target, n, cs[i])]
         IN  ReturnCount(sum(counts, 1, Len(counts)))

----------------------------------------------------------------------------
(* Counting engine of new.rs.                                              *)

\* bytes.by_ref().take(nucleotide_len - 1): the number of bytes taken
build_genome_iter_taken(n, bytes) == IF Len(bytes) < n - 1 THEN Len(bytes) ELSE n - 1

\* build_genome_iter(nucleotide_len, genome): the key after the push of the
\* taken bytes; the iterator goes on from the byte after them
build_genome_iter(n, bytes) ==
    LET taken == build_genome_iter_taken(n, bytes)
    IN  IF taken = 0 THEN ZeroKey
        ELSE GenomeIter_from(ZeroKey, n, bytes, 1, taken)[taken]

\* count_nucleotides(nucleotide_len, genome): GenomeIter::next until the bytes
\* run out, every key tabulated
count_nucleotides(n, bytes) ==
    Tabulate(GenomeIter_from(build_genome_iter(n, bytes), n, bytes,
                             build_genome_iter_taken(n, bytes) + 1, Len(bytes)))

----------------------------------------------------------------------------
(* Reporting transform.  A printed line is a record: a frequency row       *)
(* "<text> <num/1000 to 3 decimals>", a count line "<num>\t<text>", or an  *)
(* empty line.                                                             *)

Row(str, pct) == [kind |-> "row", text |-> str, num |-> pct]
CountLine(cnt, str) == [kind |-> "count", text |-> str, num |-> cnt]
EmptyLine == [kind |-> "empty", text |-> <<>>, num |-> 0]

\* {:.3} of the percentage num / den, in thousandths.  (The source divides
\* in f32; its rounding error is below the printed precision except at a tie
\* of the last digit, which the model does not represent.)
Fixed3(num, den) == (2000 * num + den) \div (2 * den)

\* values().sum()
RECURSIVE Total(_, _)
Total(table, left) ==
    IF left = {} THEN 0
    ELSE LET seq == CHOOSE x \in left : TRUE
         IN  table[seq] + Total(table, left \ {seq})

RECURSIVE SortedOrder(_, _)
\* the keys `left` by descending count.  The source sorts the table's
\* iteration order stably, so the hash decides the order of keys with equal
\* counts; the model takes one such order, and no property below reads the
\* order of rows with equal counts.
SortedOrder(table, left) ==
    IF left = {} THEN <<>>
    ELSE LET x == CHOOSE x \in left : \A y \in left : table[x] >= table[y]
         IN  <<x>> \o SortedOrder(table, left \ {x})

\* sort_by_count(seq_cnts)
sort_by_count(seq_cnts) == SortedOrder(seq_cnts, DOMAIN seq_cnts)

\* calc_percents + show_k for one sorted order: (cnt * 100) / tot_seqs,
\* seq.to_str(k) and {:.3}
show_k(k, k_cnts, order) ==
    LET tot_seqs == Total(k_cnts, DOMAIN k_cnts)
    IN  [i \in 1 .. Len(order) |->
            Row(Seq_to_str(order[i], k), Fixed3(k_cnts[order[i]] * 100, tot_seqs))]

\* sort_nucleotides_by_count(count_table)
sort_nucleotides_by_count(count_table) == SortedOrder(count_table, DOMAIN count_table)

\* calc_percentages + the loop of print_percentages for one sorted order:
\* count / total_nucleotides * 100, nucleotide.to_str(nucleotide_len) and {:.3}
print_percentages(n, count_table, order) ==
    LET total_nucleotides == Total(count_table, DOMAIN count_table)
    IN  [i \in 1 .. Len(order) |->
            Row(Nucleotide_to_str(order[i], n),
                Fixed3(count_table[order[i]] * 100, total_nucleotides))]

\* the lines of one "{}" of main's println!: those of the string, and one empty
\* line for an empty string
Section(lines) == IF lines = <<>> THEN <<EmptyLine>> ELSE lines

\* vec![..].into_iter().rev().collect() of the str! macro
str_macro(xs) == [i \in 1 .. Len(xs) |-> xs[Len(xs) + 1 - i]]

\* a variant of sort_by_len that leaves the list as it is
sort_by_len_unsorted(seq_strs) == seq_strs

RECURSIVE sort_by_len(_)
\* sort_by_len: the stable sort by length; the last string goes behind the
\* sorted others that are no longer than it
sort_by_len(seq_strs) ==
    IF Len(seq_strs) = 0 THEN <<>>
    ELSE LET last == seq_strs[Len(seq_strs)]
             front == sort_by_len(SubSeq(seq_strs, 1, Len(seq_strs) - 1))
             k == Cardinality({i \in 1 .. Len(front) : Len(front[i]) <= Len(last)})
         IN  SubSeq(front, 1, k) \o <<last>> \o SubSeq(front, k + 1, Len(front))

----------------------------------------------------------------------------
(* Inputs.                                                                 *)

\* the strings of 1..MaxPeriod symbols
Periods == UNION {[1 .. n -> Symbols] : n \in 1 .. MaxPeriod}

\* the first n bytes of p repeated
Repeat(p, n) == [j \in 1 .. n |-> p[((j - 1) % Len(p)) + 1]]

\* buffer lengths around the multiples of NUM_CHUNKS
Lengths == {NUM_CHUNKS * q + r : q \in 0 .. MaxQuot, r \in 0 .. MaxRem}

\* the input buffers of a counting run
Genomes == {Repeat(p, n) : p \in Periods, n \in Lengths}

\* the query strings of both programs are prefixes of the longest
GGTATTTTAATTTATAGT ==
    <<byte_G, byte_G, byte_T, byte_A, byte_T, byte_T, byte_T, byte_T, byte_A,
      byte_A, byte_T, byte_T, byte_T, byte_A, byte_T, byte_A, byte_G, byte_T>>
GGT == SubSeq(GGTATTTTAATTTATAGT, 1, 3)
GGTA == SubSeq(GGTATTTTAATTTATAGT, 1, 4)
GGTATT == SubSeq(GGTATTTTAATTTATAGT, 1, 6)
GGTATTTTAATT == SubSeq(GGTATTTTAATTTATAGT, 1, 12)
TAT == SubSeq(GGTATTTTAATTTATAGT, 13, 15)

\* main (knucleotide.rs): str!["GGT","GGTATTTTAATT","GGTA","GGTATTTTAATTTATAGT","GGTATT"]
MainSeqs == <<GGT, GGTATTTTAATT, GGTA, GGTATTTTAATTTATAGT, GGTATT>>

\* NUCLEOTIDE_STRS (new.rs)
NUCLEOTIDE_STRS == <<GGTATTTTAATTTATAGT, GGTATTTTAATT, GGTATT, GGTA, GGT>>

\* the orders of the strings of a set
Orders(S) == {xs \in [1 .. Cardinality(S) -> S] : \A x \in S : \E i \in DOMAIN xs : xs[i] = x}

\* the lists a caller hands to count: main's, and three strings in any order
DeclaredLists == {MainSeqs} \cup Orders({GGT, TAT, GGTA})

\* the input buffers of a program run: nothing, "GGTA", and runs of G, of GGTA
\* and of the longest query around the multiples of NUM_CHUNKS
RunGenomes ==
    {<<>>, GGTA} \cup
    {Repeat(p, NUM_CHUNKS * q + r) :
        p \in {<<byte_G>>, GGTA, GGTATTTTAATTTATAGT}, q \in 1 .. MaxRunQuot, r \in 0 .. 1}

----------------------------------------------------------------------------
(* Codec runs: a key that starts at zero takes one byte after the other    *)
(* (KNucleotides::next, GenomeIter::next, the loops of from_str and from), *)
(* and is decoded by to_str.  genome is the byte stream fed to the key.    *)

\* the starting values of the variables, which are also those of a run that
\* does not use them
CodecIdle == cur_seq = ZeroKey /\ fed = <<>> /\ text = <<>> /\ fault = "none"
CountIdle == applied = "none" /\ seq_str = <<>> /\ result = NoResult
MergeIdle == chunk_tables = <<>> /\ parts = <<>>
ProgramsIdle ==
    /\ declared = <<>>
    /\ pool = <<>>
    /\ main_pc = "count"
    /\ main_exit = "running"
    /\ k_counts = <<>>
    /\ strs = <<>>
    /\ stdout = <<>>
    /\ worker_threads = <<>>
    /\ run_pc = "par_count_nucleotides"
    /\ run_exit = "idle"
    /\ run_stdout = <<>>

CodecInit ==
    /\ profile \in {"debug", "release"}
    /\ impl \in {"knucleotide", "new"}
    /\ seq_len \in 1 .. MaxSeqLen
    /\ genome \in {Repeat(p, seq_len + MaxExtra) : p \in Periods}
    /\ CodecIdle
    /\ CountIdle
    /\ MergeIdle
    /\ ProgramsIdle

\* KNucleotides::next / the loop of Seq::from_str: cur_seq.push(byte, seq_len)
SeqPush ==
    /\ impl = "knucleotide"
    /\ fault = "none"
    /\ text = <<>>
    /\ Len(fed) < Len(genome)
    /\ LET byte == genome[Len(fed) + 1] IN
         IF profile = "debug" /\ ShlOverflows(seq_len)
         THEN /\ fault' = "shift overflow"
              /\ UNCHANGED <<cur_seq, fed>>
         ELSE /\ cur_seq' = Seq_push(cur_seq, byte, seq_len)
              /\ fed' = Append(fed, byte)
              /\ fault' = "none"
    /\ UNCHANGED <<inputVars, text, countVars, mergeVars, mainVars, runVars>>

\* GenomeIter::next / the loop of Nucleotide::from: push_byte(byte, nucleotide_len)
NucleotidePushByte ==
    /\ impl = "new"
    /\ fault = "none"
    /\ text = <<>>
    /\ Len(fed) < Len(genome)
    /\ LET byte == genome[Len(fed) + 1] IN
         IF profile = "debug" /\ ShlOverflows(seq_len)
         THEN /\ fault' = "shift overflow"
              /\ UNCHANGED <<cur_seq, fed>>
         ELSE /\ cur_seq' = push_byte(cur_seq, byte, seq_len)
              /\ fed' = Append(fed, byte)
              /\ fault' = "none"
    /\ UNCHANGED <<inputVars, text, countVars, mergeVars, mainVars, runVars>>

\* Seq::to_str(seq_len) of the key built from a seq_len-byte string
SeqToStr ==
    /\ impl = "knucleotide"
    /\ fault = "none"
    /\ text = <<>>
    /\ Len(fed) = seq_len
    /\ text' = Seq_to_str(cur_seq, seq_len)
    /\ UNCHANGED <<inputVars, cur_seq, fed, fault, countVars, mergeVars, mainVars, runVars>>

\* Nucleotide::to_str(nucleotide_len)
NucleotideToStr ==
    /\ impl = "new"
    /\ fault = "none"
    /\ text = <<>>
    /\ Len(fed) = seq_len
    /\ text' = Nucleotide_to_str(cur_seq, seq_len)
    /\ UNCHANGED <<inputVars, cur_seq, fed, fault, countVars, mergeVars, mainVars, runVars>>

CodecNext == SeqPush \/ NucleotidePushByte \/ SeqToStr \/ NucleotideToStr

SpecCodec == CodecInit /\ [][CodecNext]_vars

----------------------------------------------------------------------------
(* Counting runs: one counting operation is applied to a buffer.           *)

CountInit ==
    /\ profile = "release"
    /\ impl \in {"knucleotide", "new"}
    /\ seq_len \in 1 .. MaxK
    /\ genome \in Genomes
    /\ CodecIdle
    /\ CountIdle
    /\ MergeIdle
    /\ ProgramsIdle

\* count_k(seq_len, &genome)
CountK ==
    /\ impl = "knucleotide"
    /\ applied = "none"
    /\ applied' = "count_k"
    /\ result' = count_k(seq_len, genome)
    /\ UNCHANGED <<inputVars, codecVars, seq_str, mergeVars, mainVars, runVars>>

\* par_count(&seq_str, seq_str.len(), &genome) for a query of seq_len symbols
ParCount ==
    /\ impl = "knucleotide"
    /\ applied = "none"
    /\ \E p \in Periods :
         /\ seq_str' = Repeat(p, seq_len)
         /\ result' = par_count(seq_str', seq_len, genome)
    /\ applied' = "par_count"
    /\ UNCHANGED <<inputVars, codecVars, mergeVars, mainVars, runVars>>

\* count_nucleotides(seq_len, &genome)
CountNucleotides ==
    /\ impl = "new"
    /\ applied = "none"
    /\ applied' = "count_nucleotides"
    /\ result' = ReturnTable(count_nucleotides(seq_len, genome))
    /\ UNCHANGED <<inputVars, codecVars, seq_str, mergeVars, mainVars, runVars>>

CountNext == CountK \/ ParCount \/ CountNucleotides

SpecCount == CountInit /\ [][CountNext]_vars

----------------------------------------------------------------------------
(* Reductions: count_k hands the chunk tables to a parallel reduce, which  *)
(* merges them pairwise in an order and a tree shape of its choosing.      *)
(* Here three tables are merged, any two of the pending ones at a time and *)
(* either of the two as merge's first argument.                            *)

\* the key domain of the tables: the 1-symbol keys of A and G
MergeKeys == {Seq_from_str(<<byte_A>>), Seq_from_str(<<byte_G>>)}

\* the count tables over MergeKeys
Tables == UNION {[S -> 1 .. MaxCount] : S \in SUBSET MergeKeys}

MergeInit ==
    /\ profile = "release"
    /\ impl = "knucleotide"
    /\ seq_len = 1
    /\ genome = <<>>
    /\ CodecIdle
    /\ CountIdle
    /\ chunk_tables \in [1 .. 3 -> Tables]
    /\ parts = chunk_tables
    /\ ProgramsIdle

\* the sequence without its elements i and j
Without(seq, i, j) ==
    LET keep == {x \in 1 .. Len(seq) : x # i /\ x # j}
        nth(m) == CHOOSE x \in keep : Cardinality({y \in keep : y < x}) = m - 1
    IN  [m \in 1 .. Cardinality(keep) |-> seq[nth(m)]]

\* one step of the reduce: merge(parts[i], parts[j])
Reduce ==
    /\ \E i \in 1 .. Len(parts), j \in 1 .. Len(parts) :
         /\ i # j
         /\ parts' = <<merge(parts[i], parts[j])>> \o Without(parts, i, j)
    /\ UNCHANGED <<inputVars, codecVars, countVars, chunk_tables, mainVars, runVars>>

MergeNext == Reduce

SpecMerge == MergeInit /\ [][MergeNext]_vars


----------------------------------------------------------------------------
(* Program runs: main of knucleotide.rs (SpecMain, for every list of       *)
(* queries a caller may hand to count), and main as written followed by    *)
(* run of new.rs on the same buffer (SpecBoth).  A spawned thread is a record: its query, its state        *)
(* ("running", "returned", "panicked"), whether it was joined, and ret,    *)
(* what its closure returns when it runs to its end (the closure reads     *)
(* only what it captured, which nothing changes).                          *)

Thread(str, r) == [seq_str |-> str, state |-> "running", joined |-> FALSE, ret |-> r]

MainInit ==
    /\ profile = "release"
    /\ impl = "knucleotide"
    /\ seq_len = 1
    /\ genome \in RunGenomes
    /\ CodecIdle
    /\ CountIdle
    /\ MergeIdle
    /\ declared \in DeclaredLists
    /\ pool = <<>>
    /\ main_pc = "count"
    /\ main_exit = "running"
    /\ k_counts = <<>>
    /\ strs = <<>>
    /\ stdout = <<>>
    /\ worker_threads = <<>>
    /\ run_pc = "par_count_nucleotides"
    /\ run_exit = "idle"
    /\ run_stdout = <<>>

\* count(seqs, &genome) with seqs = str![declared]: one thread for every string
\* of sort_by_len(seq_strs), each running par_count
Count ==
    /\ main_exit = "running"
    /\ main_pc = "count"
    /\ LET sorted == sort_by_len(str_macro(declared)) IN
         pool' = [i \in 1 .. Len(sorted) |->
                    Thread(sorted[i], par_count(sorted[i], Len(sorted[i]), genome))]
    /\ main_pc' = "count_k"
    /\ UNCHANGED <<inputVars, codecVars, countVars, mergeVars, declared, main_exit,
                   k_counts, strs, stdout, runVars>>

\* a thread of the pool comes to the end of its closure: par_count has
\* returned or panicked
PoolThreadEnds ==
    /\ main_exit = "running"
    /\ \E i \in 1 .. Len(pool) :
         /\ pool[i].state = "running"
         /\ pool' = [pool EXCEPT ![i].state =
                        IF pool[i].ret.panic THEN "panicked" ELSE "returned"]
    /\ UNCHANGED <<inputVars, codecVars, countVars, mergeVars, declared, main_pc,
                   main_exit, k_counts, strs, stdout, runVars>>

\* a thread of the pool unwinds for a reason outside the program (its join
\* returns Err)
PoolThreadAborts ==
    /\ main_exit = "running"
    /\ \E i \in 1 .. Len(pool) :
         /\ pool[i].state = "running"
         /\ pool' = [pool EXCEPT ![i].state = "panicked"]
    /\ UNCHANGED <<inputVars, codecVars, countVars, mergeVars, declared, main_pc,
                   main_exit, k_counts, strs, stdout, runVars>>

\* a panic of the main thread ends the process: nothing was printed
MainPanics ==
    /\ main_exit' = "panicked"
    /\ main_pc' = "done"
    /\ pool' = <<>>
    /\ k_counts' = <<>>
    /\ strs' = <<>>
    /\ UNCHANGED <<inputVars, codecVars, countVars, mergeVars, declared, stdout, runVars>>

\* let (k1, k2) = (count_k(1, &genome), count_k(2, &genome))
CountK1K2 ==
    /\ main_exit = "running"
    /\ main_pc = "count_k"
    /\ LET k1 == count_k(1, genome)
           k2 == count_k(2, genome)
       IN  IF k1.panic \/ k2.panic THEN MainPanics
           ELSE /\ k_counts' = <<k1.table, k2.table>>
                /\ main_pc' = "show_k"
                /\ UNCHANGED <<inputVars, codecVars, countVars, mergeVars, declared, pool,
                               main_exit, strs, stdout, runVars>>

\* show_k(1, k1), then show_k(2, k2): the arguments of println! in their order
ShowK ==
    /\ main_exit = "running"
    /\ main_pc = "show_k"
    /\ LET k == Len(strs) + 1 IN
         /\ strs' = Append(strs, show_k(k, k_counts[k], sort_by_count(k_counts[k])))
         /\ main_pc' = IF k = 2 THEN "show" ELSE "show_k"
    /\ UNCHANGED <<inputVars, codecVars, countVars, mergeVars, declared, pool,
                   main_exit, k_counts, stdout, runVars>>

\* show(counts): its str vector is strs[3]
ShowStarts ==
    /\ main_exit = "running"
    /\ main_pc = "show"
    /\ Len(strs) = 2
    /\ strs' = Append(strs, <<>>)
    /\ UNCHANGED <<inputVars, codecVars, countVars, mergeVars, declared, pool, main_pc,
                   main_exit, k_counts, stdout, runVars>>

\* one turn of show's loop: thrd.join().expect("thread halts") waits for the
\* next thread of the pool, panics when it panicked, and else pushes its line
ShowJoins ==
    /\ main_exit = "running"
    /\ main_pc = "show"
    /\ Len(strs) = 3
    /\ Len(strs[3]) < Len(pool)
    /\ LET thrd == pool[Len(strs[3]) + 1] IN
         /\ thrd.state # "running"
         /\ IF thrd.state = "panicked" THEN MainPanics
            ELSE /\ strs' = [strs EXCEPT ![3] = Append(@, CountLine(thrd.ret.count, thrd.seq_str))]
                 /\ pool' = [pool EXCEPT ![Len(strs[3]) + 1].joined = TRUE]
                 /\ UNCHANGED <<inputVars, codecVars, countVars, mergeVars, declared,
                                main_pc, main_exit, k_counts, stdout, runVars>>

\* println!("{}\n\n{}\n\n{}", ..) once show has returned, and the end of main
Println ==
    /\ main_exit = "running"
    /\ main_pc = "show"
    /\ Len(strs) = 3
    /\ Len(strs[3]) = Len(pool)
    /\ stdout' = Section(strs[1]) \o <<EmptyLine>> \o Section(strs[2]) \o <<EmptyLine>>
                    \o Section(strs[3])
    /\ main_exit' = "ok"
    /\ main_pc' = "done"
    /\ pool' = <<>>
    /\ k_counts' = <<>>
    /\ strs' = <<>>
    /\ UNCHANGED <<inputVars, codecVars, countVars, mergeVars, declared, runVars>>

\* run (new.rs) starts on the same buffer once main has ended:
\* par_count_nucleotides spawns one thread for every string of NUCLEOTIDE_STRS,
\* each running count_nucleotides
ParCountNucleotides ==
    /\ main_exit # "running"
    /\ run_exit = "idle"
    /\ worker_threads' = [i \in 1 .. Len(NUCLEOTIDE_STRS) |->
            Thread(NUCLEOTIDE_STRS[i],
                   count_nucleotides(Len(NUCLEOTIDE_STRS[i]), genome))]
    /\ run_exit' = "running"
    /\ run_pc' = "print_percentages"
    /\ UNCHANGED <<inputVars, codecVars, countVars, mergeVars, mainVars, run_stdout>>

\* a worker thread comes to the end of its closure
WorkerEnds ==
    /\ run_exit = "running"
    /\ \E i \in 1 .. Len(worker_threads) :
         /\ worker_threads[i].state = "running"
         /\ worker_threads' = [worker_threads EXCEPT ![i].state = "returned"]
    /\ UNCHANGED <<inputVars, codecVars, countVars, mergeVars, mainVars, run_pc, run_exit,
                   run_stdout>>

\* a worker thread unwinds for a reason outside the program (its join returns Err)
WorkerAborts ==
    /\ run_exit = "running"
    /\ \E i \in 1 .. Len(worker_threads) :
         /\ worker_threads[i].state = "running"
         /\ worker_threads' = [worker_threads EXCEPT ![i].state = "panicked"]
    /\ UNCHANGED <<inputVars, codecVars, countVars, mergeVars, mainVars, run_pc, run_exit,
                   run_stdout>>

\* a panic of the main thread ends the process; what was printed stays printed
RunPanics ==
    /\ run_exit' = "panicked"
    /\ run_pc' = "done"
    /\ worker_threads' = <<>>
    /\ UNCHANGED <<inputVars, codecVars, countVars, mergeVars, mainVars, run_stdout>>

\* print_percentages(&genome_arc, 1), then print_percentages(&genome_arc, 2):
\* the rows, then println!()
PrintPercentages ==
    /\ run_exit = "running"
    /\ run_pc = "print_percentages"
    /\ LET n == IF run_stdout = <<>> THEN 1 ELSE 2
           count_table == count_nucleotides(n, genome)
       IN  /\ run_stdout' = run_stdout
                \o print_percentages(n, count_table, sort_nucleotides_by_count(count_table))
                \o <<EmptyLine>>
           /\ run_pc' = IF n = 2 THEN "print_counts" ELSE "print_percentages"
    /\ UNCHANGED <<inputVars, codecVars, countVars, mergeVars, mainVars, worker_threads,
                   run_exit>>

\* the thread print_counts joins next: worker_threads.into_iter().rev()
NextJoin == CHOOSE i \in 1 .. Len(worker_threads) :
                /\ ~worker_threads[i].joined
                /\ \A j \in (i + 1) .. Len(worker_threads) : worker_threads[j].joined

\* one turn of print_counts' loop: if let Ok((nucleotide, counts)) = thread.join()
\* prints counts[&Nucleotide::from(nucleotide)], which panics when the table
\* has no such key; a thread that panicked is passed over
PrintCounts ==
    /\ run_exit = "running"
    /\ run_pc = "print_counts"
    /\ \E i \in 1 .. Len(worker_threads) : ~worker_threads[i].joined
    /\ LET thread == worker_threads[NextJoin]
           key == Nucleotide_from(thread.seq_str)
       IN  /\ thread.state # "running"
           /\ IF thread.state = "returned" /\ key \notin DOMAIN thread.ret THEN RunPanics
              ELSE /\ worker_threads' = [worker_threads EXCEPT ![NextJoin].joined = TRUE]
                   /\ run_stdout' =
                        IF thread.state = "returned"
                        THEN Append(run_stdout, CountLine(thread.ret[key], thread.seq_str))
                        ELSE run_stdout
                   /\ UNCHANGED <<inputVars, codecVars, countVars, mergeVars, mainVars,
                                  run_pc, run_exit>>

\* the end of print_counts and of run
RunReturns ==
    /\ run_exit = "running"
    /\ run_pc = "print_counts"
    /\ \A i \in 1 .. Len(worker_threads) : worker_threads[i].joined
    /\ run_exit' = "ok"
    /\ run_pc' = "done"
    /\ worker_threads' = <<>>
    /\ UNCHANGED <<inputVars, codecVars, countVars, mergeVars, mainVars, run_stdout>>

MainNext ==
    \/ Count \/ PoolThreadEnds \/ PoolThreadAborts \/ CountK1K2 \/ ShowK
    \/ ShowStarts \/ ShowJoins \/ Println

SpecMain == MainInit /\ [][MainNext]_vars

BothInit == MainInit /\ declared = MainSeqs

BothNext ==
    \/ Count \/ PoolThreadEnds \/ PoolThreadAborts \/ CountK1K2 \/ ShowK
    \/ ShowStarts \/ ShowJoins \/ Println
    \/ ParCountNucleotides \/ WorkerEnds \/ WorkerAborts \/ PrintPercentages
    \/ PrintCounts \/ RunReturns

SpecBoth == BothInit /\ [][BothNext]_vars

----------------------------------------------------------------------------
(* Properties.                                                             *)

\* the number of positions of the buffer at which the string stands
Occurrences(str, bytes) ==
    Cardinality({i \in 1 .. (Len(bytes) - Len(str) + 1) :
                    SubSeq(bytes, i, i + Len(str) - 1) = str})

\* the table of a single pass over the buffer that counts each of its
\* Len - k + 1 full windows of k symbols once
SinglePass(k, bytes) ==
    Tabulate([i \in 1 .. (Len(bytes) - k + 1) |-> Seq_from_str(SubSeq(bytes, i, i + k - 1))])

\* the number of full windows of k symbols
FullWindows(k, bytes) == IF Len(bytes) >= k THEN Len(bytes) - k + 1 ELSE 0

\* C1: whenever count_k returns, its table maps every key to the count a
\* single unpartitioned pass over the buffer gives it.
C1_ChunkingCorrect ==
    (applied = "count_k" /\ ~result.panic) => result.table = SinglePass(seq_len, genome)

\* C2: the counts of a full tabulation (count_k, count_nucleotides) add up to
\* Len - k + 1 when the buffer has k bytes or more, and to 0 otherwise.
C2_Completeness ==
    (applied \in {"count_k", "count_nucleotides"} /\ ~result.panic)
        => Total(result.table, DOMAIN result.table) = FullWindows(seq_len, genome)

\* the part of C2 that is about count_nucleotides alone
C2_CompletenessNew ==
    applied = "count_nucleotides"
        => Total(result.table, DOMAIN result.table) = FullWindows(seq_len, genome)

\* the sum of two tables key by key, a key being in the sum when it is in either
KeywiseSum(a, b) ==
    [x \in DOMAIN a \cup DOMAIN b |->
        (IF x \in DOMAIN a THEN a[x] ELSE 0) + (IF x \in DOMAIN b THEN b[x] ELSE 0)]

\* C3: merge is commutative and associative on the tables of a reduction, its
\* result is the key-by-key sum, and so the reduction of three tables ends
\* with the same table whatever pairs were merged in whatever order.
C3_MergeAssociativeCommutative ==
    /\ \A i, j \in 1 .. Len(parts) :
         /\ merge(parts[i], parts[j]) = merge(parts[j], parts[i])
         /\ merge(parts[i], parts[j]) = KeywiseSum(parts[i], parts[j])
    /\ \A i, j, k \in 1 .. Len(parts) :
         merge(merge(parts[i], parts[j]), parts[k]) = merge(parts[i], merge(parts[j], parts[k]))
    /\ Len(parts) = 1 =>
         parts[1] = KeywiseSum(KeywiseSum(chunk_tables[1], chunk_tables[2]), chunk_tables[3])

\* C3's case: a reduction has ended, of tables that share a key and differ in
\* their keys
C3_Witness ==
    /\ Len(parts) = 1
    /\ Len(chunk_tables) = 3
    /\ \E x \in DOMAIN chunk_tables[1] : x \in DOMAIN chunk_tables[2] /\ x \in DOMAIN chunk_tables[3]
    /\ \E y \in DOMAIN chunk_tables[3] : y \notin DOMAIN chunk_tables[1]

\* C4: each of the 4 symbols decodes from its code to itself, and the string
\* to_str gives for the key of a k-symbol string is that string.
C4_RoundTrip ==
    /\ \A b \in Symbols : NUCLEOTIDES[Code(b) + 1] = b
    /\ text # <<>> => text = fed

\* the queries of the count lines among the lines, in their order
CountLines(lines) == SelectSeq(lines, LAMBDA l : l.kind = "count")
Queries(lines) == [i \in 1 .. Len(CountLines(lines)) |-> CountLines(lines)[i].text]

\* the count lines show has pushed so far, and those main printed
Shown ==
    IF main_exit = "ok" THEN Queries(stdout)
    ELSE IF Len(strs) = 3 THEN Queries(strs[3])
    ELSE <<>>

\* the place of a query in the declared list
DeclaredAt(str) == CHOOSE i \in 1 .. Len(declared) : declared[i] = str

\* C5 as stated: the count lines main prints are in the order in which the
\* queries were declared.
C5_DeclaredOrder == main_exit = "ok" => Queries(stdout) = declared

\* C5 as amended: in every interleaving the count lines are in ascending
\* order of query length, queries of equal length in the reverse of their
\* declared order, and main prints one line for every declared query.
C5_AscendingLength ==
    /\ \A i, j \in 1 .. Len(Shown) :
         i < j => \/ Len(Shown[i]) < Len(Shown[j])
                  \/ /\ Len(Shown[i]) = Len(Shown[j])
                     /\ DeclaredAt(Shown[i]) > DeclaredAt(Shown[j])
    /\ \A i \in 1 .. Len(Shown) : \E d \in 1 .. Len(declared) : declared[d] = Shown[i]
    /\ main_exit = "ok" => Len(Shown) = Len(declared)

\* C5's case: show has pushed the lines of the first threads and waits for the
\* next, while the last thread of the pool has returned before it
C5_Witness ==
    /\ declared = MainSeqs
    /\ main_pc = "show"
    /\ Len(strs) = 3
    /\ Len(strs[3]) = 2
    /\ pool[3].state = "running"
    /\ pool[Len(pool)].state = "returned"

\* C6: no reporting step goes on after the join of a thread that panicked.
C6_WorkerFailureFatal ==
    /\ \A i \in 1 .. Len(pool) : ~(pool[i].state = "panicked" /\ pool[i].joined)
    /\ \A i \in 1 .. Len(worker_threads) :
         ~(worker_threads[i].state = "panicked" /\ worker_threads[i].joined)

\* C7: a query that stands nowhere in the buffer is reported with the count 0:
\* par_count returns 0 for it, print_counts prints 0 for it once it has joined
\* its thread, and print_counts does not panic.
C7_ZeroOccurrences ==
    /\ \A i \in 1 .. Len(pool) :
         Occurrences(pool[i].seq_str, genome) = 0 => pool[i].ret = ReturnCount(0)
    /\ \A i \in 1 .. Len(worker_threads) :
         (/\ Occurrences(worker_threads[i].seq_str, genome) = 0
          /\ worker_threads[i].joined
          /\ worker_threads[i].state = "returned")
            => \E l \in 1 .. Len(run_stdout) :
                 run_stdout[l] = CountLine(0, worker_threads[i].seq_str)
    /\ run_exit # "panicked"

\* C8: on a buffer shorter than the window, count_k returns an empty table and
\* par_count the count 0, and neither panics.
C8_DegenerateInput ==
    (Len(genome) < seq_len /\ applied \in {"count_k", "par_count"})
        => result = NoResult

\* the frequency rows among the lines
Rows(lines) == {lines[i] : i \in {j \in 1 .. Len(lines) : lines[j].kind = "row"}}

\* C9: when both programs have run to their end on the same buffer and no
\* count line is missing, they have printed the same frequency rows and the
\* same count lines in the same order.
C9_SameOutput ==
    (/\ main_exit = "ok"
     /\ run_exit = "ok"
     /\ Len(CountLines(run_stdout)) = Len(NUCLEOTIDE_STRS))
        => /\ Rows(stdout) = Rows(run_stdout)
           /\ CountLines(stdout) = CountLines(run_stdout)

\* C10: for every window length from 1 to 32 no push overflows, and after any
\* pushes into a zero key the pairs from k upwards are zero and pair i < k
\* holds the code of the i-th last pushed symbol.
C10_KeyMask ==
    seq_len <= KeyPairs =>
        /\ fault = "none"
        /\ \A i \in 0 .. (KeyPairs - 1) :
             cur_seq[i + 1] = IF i < seq_len /\ i < Len(fed)
                              THEN Code(fed[Len(fed) - i]) ELSE 0

====
